---- MODULE Spec2Model ----
(***************************************************************************)
(* A model of the spatial-hash terrain and entity index of procedural_map: *)
(* PerlinNoise (perlinNoise.js), Cell (main.js), Grid and Entity (Grid.js), *)
(* Tree (Tree.js) and the parts of Game (Game.js) that create entities.    *)
(*                                                                         *)
(* Objects live in two heaps.  `heap` holds every Cell object ever          *)
(* constructed, in allocation order; a Cell instance is its index in it.   *)
(* `ents` holds every Entity object, in allocation order.  The Grid's hash *)
(* map `cells` maps a cell key to a Cell instance.  JavaScript numbers are  *)
(* modelled as fixed-point integers: Unit stands for the real 1.0 in the   *)
(* noise and terrain arithmetic; world coordinates are whole numbers.      *)
(* Math.random() is an input: every top-level operation draws a finite      *)
(* `tape` of outcomes that the spawn code consumes in call order.           *)
(***************************************************************************)
EXTENDS Integers, Sequences, FiniteSets, TLC

VARIABLES
    cells,      \* Grid.cells of the game: cell key -> Cell instance
    heap,       \* the Cell objects of the game
    ents,       \* the Entity objects of the game (Game.entities order)
    noise,      \* the Grid's three PerlinNoise generators
    op,         \* the last operation called: its name, arguments, result, call log
    returned,   \* history: <<cellX, cellY, Cell>> of every Grid.getCell return
    steps,      \* the number of operations called so far
    game        \* Game.running and the listeners of the game's ticker

vars == <<cells, heap, ents, noise, op, returned, steps, game>>

-----------------------------------------------------------------------------
(* Bounds of the model *)

MaxCells == 2
MaxEntities == 2
MaxRolls == 2
MaxSteps == 3
SpawnRolls == 3

-----------------------------------------------------------------------------
(* Fixed-point arithmetic *)

Unit == 1000

Abs(a) == IF a < 0 THEN -a ELSE a

Max(a, b) == IF a > b THEN a ELSE b

Min(a, b) == IF a < b THEN a ELSE b

\* JavaScript's % keeps the sign of the dividend.
JsRem(a, m) == IF a >= 0 THEN a % m ELSE -((-a) % m)

\* The product of two fixed-point reals.
Mul(a, b) == (a * b) \div Unit

\* Math.floor of a fixed-point real, as a whole number.
Floor(a) == a \div Unit

\* The largest whole s with s*s <= n (bisection on lo..hi).
RECURSIVE SqrtBetween(_, _, _)
SqrtBetween(n, lo, hi) ==
    IF lo >= hi THEN lo
    ELSE LET mid == (lo + hi + 1) \div 2
         IN  IF mid * mid <= n THEN SqrtBetween(n, mid, hi)
             ELSE SqrtBetween(n, lo, mid - 1)

ISqrt(n) == SqrtBetween(n, 0, Min(n, 46340))

-----------------------------------------------------------------------------
(* perlinNoise.js *)

HashX == 374761393
HashY == 668265263
HashModulus == 2147483647
\* HashModulus / (2 * Math.PI * Unit): hash units per milliradian
HashPerMilliRad == 341783
HalfPiMilli == 1571
PiMilli == 3142
TwoPiMilli == 6283

\* Math.cos on [0, pi/2] in milliradians, by its Taylor polynomial.
CosFirstQuadrant(a) ==
    LET Series(x2, x4) ==
            Unit - (x2 \div 2) + (x4 \div 24) - (Mul(x4, x2) \div 720)
                + (Mul(x4, x4) \div 40320)
        Squared(x2) == Series(x2, Mul(x2, x2))
    IN  Squared(Mul(a, a))

\* Math.cos of an angle in milliradians.
Cos(angle) ==
    LET a == Abs(angle) % TwoPiMilli
        b == IF a > PiMilli THEN TwoPiMilli - a ELSE a
    IN  IF b > HalfPiMilli THEN -CosFirstQuadrant(PiMilli - b)
        ELSE CosFirstQuadrant(b)

\* Math.sin of an angle in milliradians.
Sin(angle) == Cos(angle - HalfPiMilli)

\* new PerlinNoise(seed)
PerlinNoise(seed) ==
    [seed |-> seed, gradients |-> <<>>, memory |-> <<>>]

\* The gradient of lattice point (ix, iy), computed from the hash.
ComputeGradient(seed, ix, iy) ==
    LET Direction(angle) == <<Cos(angle), Sin(angle)>>
        Angle(hash) == Direction(IF hash >= 0 THEN hash \div HashPerMilliRad
                                 ELSE -((-hash) \div HashPerMilliRad))
    IN  Angle(JsRem(ix * HashX + iy * HashY + seed * 1000, HashModulus))

\* A faulty randomGradient: a new gradient replaces the cache instead of
\* being added to it.
randomGradientForgetful(gen, ix, iy) ==
    LET key == <<ix, iy>>
    IN  IF key \in DOMAIN gen.gradients
        THEN [gen |-> gen, ret |-> gen.gradients[key]]
        ELSE LET Stored(gradient) ==
                     [gen |-> [gen EXCEPT !.gradients = (key :> gradient)],
                      ret |-> gradient]
             IN  Stored(ComputeGradient(gen.seed, ix, iy))

\* randomGradient(ix, iy): [gen, ret], the generator afterwards and the gradient.
randomGradient(gen, ix, iy) ==
    LET key == <<ix, iy>>
    IN  IF key \in DOMAIN gen.gradients
        THEN [gen |-> gen, ret |-> gen.gradients[key]]
        ELSE LET Stored(gradient) ==
                     [gen |-> [gen EXCEPT !.gradients = (key :> gradient) @@ @],
                      ret |-> gradient]
             IN  Stored(ComputeGradient(gen.seed, ix, iy))

\* dotGridGradient(ix, iy, x, y); x and y are fixed-point reals.
dotGridGradient(gen, ix, iy, x, y) ==
    LET dx == x - ix * Unit
        dy == y - iy * Unit
        Dot(g) == [gen |-> g.gen,
                   ret |-> Mul(dx, g.ret[1]) + Mul(dy, g.ret[2])]
    IN  Dot(randomGradient(gen, ix, iy))

\* interpolate(a0, a1, w) = (a1 - a0) * (3.0 - w * 2.0) * w * w + a0
interpolate(a0, a1, w) ==
    Mul(Mul(Mul(a1 - a0, 3 * Unit - 2 * w), w), w) + a0

\* A faulty memory key: one key for every (x, y) of equal sum.
MemoryKeySum(x, y) == <<x + y, 0>>

\* The memory key of noise(x, y).
MemoryKey(x, y) == <<x, y>>

\* noise(x, y): [gen, ret], the generator afterwards and the sample in 0..Unit.
PerlinSample(gen, x, y) ==
    LET key == MemoryKey(x, y)
    IN  IF key \in DOMAIN gen.memory
        THEN [gen |-> gen, ret |-> gen.memory[key]]
        ELSE LET x0 == Floor(x)
                 x1 == x0 + 1
                 y0 == Floor(y)
                 y1 == y0 + 1
                 sx == x - x0 * Unit
                 sy == y - y0 * Unit
                 Remember(g, sample) ==
                     [gen |-> [g EXCEPT !.memory = (key :> sample) @@ @],
                      ret |-> sample]
                 Blend(n0, n1, n2, n3) ==
                     LET ix0 == interpolate(n0.ret, n1.ret, sx)
                         ix1 == interpolate(n2.ret, n3.ret, sx)
                         value == interpolate(ix0, ix1, sy)
                         normalized == (value + Unit) \div 2
                     IN  Remember(n3.gen, Max(0, Min(Unit, normalized)))
                 Corner3(n0, n1, n2) ==
                     Blend(n0, n1, n2, dotGridGradient(n2.gen, x1, y1, x, y))
                 Corner2(n0, n1) ==
                     Corner3(n0, n1, dotGridGradient(n1.gen, x0, y1, x, y))
                 Corner1(n0) ==
                     Corner2(n0, dotGridGradient(n0.gen, x1, y0, x, y))
             IN  Corner1(dotGridGradient(gen, x0, y0, x, y))

\* Stands for a finite double of magnitude 1e300, far above every fixed-point
\* number of the model: Math.floor(1e300) and 1e300 + 1 are 1e300 again, and
\* 1e300 * 374761393 exceeds Number.MAX_VALUE, so the product is Infinity.
Huge == 2147483647

\* Stands for NaN.
NaN == -1

IsHuge(a) == a = Huge \/ a = -Huge

\* The lattice points noise(x, y) visits.
Corners(x, y) ==
    { <<ix, iy>> :
        ix \in IF IsHuge(x) THEN { x } ELSE { Floor(x), Floor(x) + 1 },
        iy \in IF IsHuge(y) THEN { y } ELSE { Floor(y), Floor(y) + 1 } }

\* noise(x, y) for every finite double.  With a huge coordinate the hash of
\* randomGradient, (ix * 374761393 + iy * 668265263 + seed * 1000) % 2147483647,
\* is Infinity % 2147483647 = NaN, so angle and gradient are NaN, every dot
\* product is NaN, and Math.max(0, Math.min(1, NaN)) is NaN.
noiseOfDouble(gen, x, y) ==
    IF ~(IsHuge(x) \/ IsHuge(y)) THEN PerlinSample(gen, x, y)
    ELSE LET key == MemoryKey(x, y)
             corners == Corners(x, y)
             fresh == { c \in corners : c \notin DOMAIN gen.gradients }
         IN  IF key \in DOMAIN gen.memory
             THEN [gen |-> gen, ret |-> gen.memory[key]]
             ELSE [gen |-> [gen EXCEPT
                              !.gradients = [c \in fresh |-> <<NaN, NaN>>] @@ @,
                              !.memory = (key :> NaN) @@ @],
                   ret |-> NaN]

-----------------------------------------------------------------------------
(* Configuration: main.js initializeGame, gameOptions *)

cellSize == 50
soilFrequency == 110
heightFrequency == 131
temperatureFrequency == 12

(* Grid.constructor: the seeds of the three generators *)
SoilSeed == 123
HeightSeed == 456
TemperatureSeed == 789

Null == 0

-----------------------------------------------------------------------------
(* Math.random() *)

\* One spawn attempt's draws: r is compared with the chance; u and v are the
\* draws for the tree's offset in the cell.  Values are fixed-point in [0, 1).
Rolls ==
    { [r |-> 0, u |-> 0, v |-> 0],
      [r |-> 980, u |-> 0, v |-> 0] }

\* The draw when the tape has run out: Math.random() close to 1.
LateRoll == [r |-> 980, u |-> 0, v |-> 0]

\* The draw of a spawn attempt that succeeds and puts the tree near the far
\* corner of the cell.
FarRoll == [r |-> 0, u |-> 980, v |-> 980]

RECURSIVE TapesOver(_, _)
TapesOver(rolls, n) ==
    IF n = 0 THEN { <<>> }
    ELSE { <<r>> \o t : r \in rolls, t \in TapesOver(rolls, n - 1) }

RECURSIVE TapesOfLength(_)
TapesOfLength(n) ==
    IF n = 0 THEN { <<>> }
    ELSE { <<r>> \o t : r \in Rolls, t \in TapesOfLength(n - 1) }

Tapes == TapesOfLength(MaxRolls)

\* The tapes worth drawing for a call that looks up cell (cellX, cellY): draws
\* are made only while a Cell is constructed, which a stored key rules out.
TapesFor(cellX, cellY) ==
    IF <<cellX, cellY>> \in DOMAIN cells THEN { <<>> }
    ELSE IF Len(heap) >= MaxCells THEN {}
    ELSE Tapes

TapesAt(worldX, worldY) ==
    TapesFor(worldX \div cellSize, worldY \div cellSize)

-----------------------------------------------------------------------------
(* Tree.js, and Cell's spawn chances (main.js) *)

TreeTypes == <<"oak", "pine", "birch", "palm", "maple">>

treePreferences ==
    [oak   |-> [heightMin |-> 400, heightMax |-> 700, heightOptimal |-> 550,
                soilMin |-> 400, soilMax |-> 700, soilOptimal |-> 550,
                tempMin |-> 400, tempMax |-> 700, tempOptimal |-> 550],
     pine  |-> [heightMin |-> 500, heightMax |-> 800, heightOptimal |-> 650,
                soilMin |-> 500, soilMax |-> 800, soilOptimal |-> 650,
                tempMin |-> 500, tempMax |-> 800, tempOptimal |-> 650],
     palm  |-> [heightMin |-> 450, heightMax |-> 750, heightOptimal |-> 600,
                soilMin |-> 450, soilMax |-> 750, soilOptimal |-> 600,
                tempMin |-> 450, tempMax |-> 750, tempOptimal |-> 600],
     birch |-> [heightMin |-> 400, heightMax |-> 1000, heightOptimal |-> 600,
                soilMin |-> 200, soilMax |-> 600, soilOptimal |-> 400,
                tempMin |-> 600, tempMax |-> 850, tempOptimal |-> 725],
     maple |-> [heightMin |-> 600, heightMax |-> 850, heightOptimal |-> 600,
                soilMin |-> 500, soilMax |-> 900, soilOptimal |-> 700,
                tempMin |-> 100, tempMax |-> 400, tempOptimal |-> 250]]

\* calculatePropertyFitness(value, min, max, optimal), in 0..Unit
calculatePropertyFitness(value, min, max, optimal) ==
    IF value < min \/ value > max THEN 0
    ELSE LET distanceFromOptimal == Abs(value - optimal)
             maxDistance == Max(optimal - min, max - optimal)
             fitness == Unit - (distanceFromOptimal * Unit) \div maxDistance
         IN  Max(0, fitness)

\* A faulty calculateTreeSpawnChance: a type without preferences is rated
\* with the oak's preferences instead of yielding 0.
calculateTreeSpawnChanceDefault(height, soilFertility, temperature, treeType) ==
    LET prefs == IF treeType \in DOMAIN treePreferences
                 THEN treePreferences[treeType]
                 ELSE treePreferences["oak"]
        heightFitness == calculatePropertyFitness(
            height, prefs.heightMin, prefs.heightMax, prefs.heightOptimal)
        soilFitness == calculatePropertyFitness(
            soilFertility, prefs.soilMin, prefs.soilMax, prefs.soilOptimal)
        tempFitness == calculatePropertyFitness(
            temperature, prefs.tempMin, prefs.tempMax, prefs.tempOptimal)
        combinedFitness == heightFitness * soilFitness * tempFitness
    IN  (combinedFitness \div 10) * 3

\* calculateTreeSpawnChance(height, soilFertility, temperature, treeType),
\* in units of 1 / Unit^3; an unknown type yields 0.
calculateTreeSpawnChance(height, soilFertility, temperature, treeType) ==
    IF treeType \notin DOMAIN treePreferences THEN 0
    ELSE LET prefs == treePreferences[treeType]
             heightFitness == calculatePropertyFitness(
                 height, prefs.heightMin, prefs.heightMax, prefs.heightOptimal)
             soilFitness == calculatePropertyFitness(
                 soilFertility, prefs.soilMin, prefs.soilMax, prefs.soilOptimal)
             tempFitness == calculatePropertyFitness(
                 temperature, prefs.tempMin, prefs.tempMax, prefs.tempOptimal)
             combinedFitness == heightFitness * soilFitness * tempFitness
         IN  (combinedFitness \div 10) * 3

\* Array.prototype.sort((a, b) => b.chance - a.chance): stable, highest first.
RECURSIVE InsertByChance(_, _)
InsertByChance(sorted, item) ==
    IF sorted = <<>> THEN <<item>>
    ELSE IF Head(sorted).chance >= item.chance
         THEN <<Head(sorted)>> \o InsertByChance(Tail(sorted), item)
         ELSE <<item>> \o sorted

RECURSIVE SortByChance(_)
SortByChance(list) ==
    IF list = <<>> THEN <<>>
    ELSE InsertByChance(SortByChance(SubSeq(list, 1, Len(list) - 1)),
                        list[Len(list)])

\* spawnTreesHere, lines 266-287: the types that can grow, highest chance first.
treeChances(cell, types) ==
    LET chanceOf(i) == calculateTreeSpawnChance(
            cell.height, cell.soilFertility, cell.temperature, types[i])
        kept == SelectSeq([i \in 1..Len(types) |->
                              [type |-> types[i], chance |-> chanceOf(i)]],
                          LAMBDA d : d.chance > 0)
    IN  SortByChance(kept)

maxTrees == 2

-----------------------------------------------------------------------------
(* The world an operation runs in: the program state, the rest of the tape  *)
(* of Math.random() draws, the value the last call returned, and the log of *)
(* the calls that returned during the operation.                            *)

World(tape) ==
    [cells |-> cells, heap |-> heap, ents |-> ents, noise |-> noise,
     game |-> game,
     tape |-> tape, ret |-> Null, log |-> <<>>]

Return(W, value) == [W EXCEPT !.ret = value]

Logged(W, event) == [W EXCEPT !.log = Append(@, event)]

-----------------------------------------------------------------------------
(* Grid: coordinates *)

\* A faulty getCellKey: one key for every pair of equal sum.
getCellKeySum(cellX, cellY) == <<cellX + cellY, 0>>

\* getCellKey(cellX, cellY): the key `x_${cellX}_y_${cellY}`, one per pair.
getCellKey(cellX, cellY) == <<cellX, cellY>>

\* A faulty quotient: truncation toward zero, as (a / b) | 0 would give.
TruncQuotient(a, b) == IF a >= 0 THEN a \div b ELSE -((-a) \div b)

\* Math.floor(a / b) for whole a and positive whole b.
FloorQuotient(a, b) == a \div b

\* worldToCell(worldX, worldY)
worldToCell(worldX, worldY) ==
    [cellX |-> FloorQuotient(worldX, cellSize),
     cellY |-> FloorQuotient(worldY, cellSize)]

-----------------------------------------------------------------------------
(* Cell.constructor, Cell.spawnTreesHere, Game.createTree, Tree and Entity  *)
(* constructors, Grid.addEntity, Grid.getCellAtWorldPos and Grid.getCell    *)
(* call one another.                                                        *)

WaterLevel == 400
BeachLevel == 450
FrozenLevel == 300
DesertLevel == 700

\* Cell.constructor, lines 215-258: the fields of a new Cell.
CellFields(x, y, soil, height, temperature) ==
    [x |-> x, y |-> y, cellSize |-> cellSize, entities |-> {},
     worldX |-> x * cellSize, worldY |-> y * cellSize,
     soilFertility |-> soil, height |-> height, temperature |-> temperature,
     z |-> 0,
     water |-> height < WaterLevel,
     beach |-> height > WaterLevel /\ height < BeachLevel,
     frozen |-> temperature < FrozenLevel,
     desert |-> temperature > DesertLevel,
     flowDirection |-> <<0, 0>>, flowDirectionCalculated |-> FALSE,
     neighborsInRadius |-> <<>>]

\* Entity.constructor, lines 224-266: the fields of a new Entity.
EntityFields(x, y) ==
    [position |-> <<x, y>>, prevPosition |-> <<x, y>>,
     velocity |-> <<0, 0>>, acceleration |-> <<0, 0>>, z |-> 0,
     currentCell |-> Null, static |-> FALSE,
     active |-> TRUE, treeType |-> "none"]

\* A faulty Cell.addEntity: the entity is not put in the set.
CellAddNothing(W, c, e) == W

\* Cell.addEntity(entity) on Cell instance c
CellAddEntity(W, c, e) ==
    [W EXCEPT !.heap[c].entities = @ \cup {e}]

\* Cell.removeEntity(entity) on Cell instance c
CellRemoveEntity(W, c, e) ==
    [W EXCEPT !.heap[c].entities = @ \ {e}]

\* this.cells[key], or Null when the key is absent
Lookup(W, key) == IF key \in DOMAIN W.cells THEN W.cells[key] ELSE Null

\* What holds of entity e when a Grid.addEntity / updateEntity call returns:
\* its position, its currentCell before the call and now, that Cell's
\* coordinates, whether the Cell's set holds e, and the Cell the map stores
\* under those coordinates.
IndexSnapshot(W, call, e, before) ==
    LET c == W.ents[e].currentCell
    IN  [call |-> call, entity |-> e, position |-> W.ents[e].position,
         before |-> before, currentCell |-> c,
         cellX |-> W.heap[c].x, cellY |-> W.heap[c].y,
         member |-> e \in W.heap[c].entities,
         stored |-> Lookup(W, getCellKey(W.heap[c].x, W.heap[c].y))]

\* The next draw of the tape.
NextRoll(W) == IF W.tape = <<>> THEN LateRoll ELSE Head(W.tape)

Drawn(W) == [W EXCEPT !.tape = IF @ = <<>> THEN <<>> ELSE Tail(@)]

RECURSIVE getCell(_, _, _)
RECURSIVE newCell(_, _, _)
RECURSIVE spawnTreesHere(_, _)
RECURSIVE spawnLoop(_, _, _, _, _)
RECURSIVE createTree(_, _, _, _)
RECURSIVE newEntity(_, _, _)
RECURSIVE addEntity(_, _)
RECURSIVE getCellAtWorldPos(_, _, _)

\* A faulty Grid.getCell: no look-up before constructing, so every call
\* constructs and stores a new Cell.
getCellFresh(W, cellX, cellY) ==
    LET key == getCellKey(cellX, cellY)
        Store(C) ==
            Return(Logged([C EXCEPT !.cells = (key :> C.ret) @@ @],
                          [call |-> "getCell", cellX |-> cellX, cellY |-> cellY,
                           cell |-> C.ret, created |-> TRUE]),
                   C.ret)
    IN  Store(newCell(W, cellX, cellY))

\* Grid.getCell(cellX, cellY): returns the Cell instance.
getCell(W, cellX, cellY) ==
    LET key == getCellKey(cellX, cellY)
        Store(C) == [C EXCEPT !.cells = (key :> C.ret) @@ @]
        Found(W1) ==
            Return(Logged(W1, [call |-> "getCell", cellX |-> cellX,
                               cellY |-> cellY, cell |-> W1.cells[key],
                               created |-> key \notin DOMAIN W.cells]),
                   W1.cells[key])
    IN  Found(IF key \notin DOMAIN W.cells
              THEN Store(newCell(W, cellX, cellY))
              ELSE W)

\* Grid.getCellAtWorldPos(worldX, worldY)
getCellAtWorldPos(W, worldX, worldY) ==
    LET at == worldToCell(worldX, worldY)
    IN  getCell(W, at.cellX, at.cellY)

\* new Cell(x, y, cellSize, grid): returns the new Cell instance.
newCell(W, x, y) ==
    LET this == Len(W.heap) + 1
        Built(soil, height, temperature) ==
            [W EXCEPT
               !.noise = [soil |-> soil.gen, height |-> height.gen,
                          temperature |-> temperature.gen],
               !.heap = Append(@, CellFields(x, y, soil.ret, height.ret,
                                             temperature.ret))]
    IN  Return(
            spawnTreesHere(
                Built(PerlinSample(W.noise.soil,
                                   x * soilFrequency, y * soilFrequency),
                      PerlinSample(W.noise.height,
                                   x * heightFrequency, y * heightFrequency),
                      PerlinSample(W.noise.temperature,
                                   x * temperatureFrequency,
                                   y * temperatureFrequency)),
                this),
            this)

\* Cell.spawnTreesHere() on Cell instance `this`
spawnTreesHere(W, this) ==
    LET Entered(E) ==
            IF E.heap[this].water THEN E
            ELSE spawnLoop(E, this, treeChances(E.heap[this], TreeTypes), 1, 0)
    IN  Entered(Logged(W, [call |-> "spawnTreesHere", cell |-> this,
                           cellX |-> W.heap[this].x, cellY |-> W.heap[this].y]))

\* spawnTreesHere, lines 293-304: the loop from candidate i on.
spawnLoop(W, this, chances, i, treesSpawned) ==
    IF i > Len(chances) \/ treesSpawned >= maxTrees THEN W
    ELSE LET roll == NextRoll(W)
             cell == W.heap[this]
             Rolled(R) ==
                 Logged(R, [call |-> "roll", cell |-> this,
                            type |-> chances[i].type,
                            chance |-> chances[i].chance])
             Spawned(T, x, y) ==
                 Logged(T, [call |-> "createTree", cell |-> this,
                            cellX |-> cell.x, cellY |-> cell.y,
                            x |-> x, y |-> y, type |-> chances[i].type])
             Create(R, x, y) ==
                 Spawned(createTree(R, x, y, chances[i].type), x, y)
         IN  IF roll.r * Unit * Unit < chances[i].chance
             THEN spawnLoop(
                      Create(Rolled(Drawn(W)),
                             cell.worldX + (cell.cellSize * roll.u) \div Unit,
                             cell.worldY + (cell.cellSize * roll.v) \div Unit),
                      this, chances, i + 1, treesSpawned + 1)
             ELSE spawnLoop(Rolled(Drawn(W)), this, chances, i + 1,
                            treesSpawned)

\* new Entity(x, y, game): returns the new Entity.
newEntity(W, x, y) ==
    LET this == Len(W.ents) + 1
        W1 == [W EXCEPT !.ents = Append(@, EntityFields(x, y))]
    IN  Return(addEntity(W1, this), this)

\* Game.createTree(x, y, treeType) = new Tree(x, y, game, treeType)
createTree(W, x, y, treeType) ==
    LET Tree(E) == [E EXCEPT !.ents[E.ret].static = TRUE,
                             !.ents[E.ret].treeType = treeType]
    IN  Tree(newEntity(W, x, y))

\* Grid.addEntity(entity)
addEntity(W, e) ==
    LET Done(W2) == Logged(W2, IndexSnapshot(W2, "addEntity", e,
                                             W.ents[e].currentCell))
        Add(G) == Done([CellAddEntity(G, G.ret, e) EXCEPT
                          !.ents[e].currentCell = G.ret])
    IN  Add(getCellAtWorldPos(W, W.ents[e].position[1], W.ents[e].position[2]))

\* Grid.removeEntity(entity)
removeEntity(W, e) ==
    IF W.ents[e].currentCell # Null
    THEN LET W1 == CellRemoveEntity(W, W.ents[e].currentCell, e)
         IN  [W1 EXCEPT !.ents[e].currentCell = Null]
    ELSE W

\* Grid.updateEntity(entity)
updateEntity(W, e) ==
    LET Done(W1) == Logged(W1, IndexSnapshot(W1, "updateEntity", e,
                                             W.ents[e].currentCell))
        Move(G) ==
            IF G.ents[e].currentCell # G.ret
            THEN [CellAddEntity(
                      IF G.ents[e].currentCell # Null
                      THEN CellRemoveEntity(G, G.ents[e].currentCell, e)
                      ELSE G,
                      G.ret, e)
                    EXCEPT !.ents[e].currentCell = G.ret]
            ELSE G
    IN  Done(Move(getCellAtWorldPos(W, W.ents[e].position[1],
                                    W.ents[e].position[2])))

-----------------------------------------------------------------------------
(* Grid: queries and clear *)

\* The cell keys of the loops `for cellX ... for cellY ...`.
KeysInRange(minCellX, maxCellX, minCellY, maxCellY) ==
    { getCellKey(cellX, cellY) :
        cellX \in minCellX..maxCellX, cellY \in minCellY..maxCellY }

\* Math.sqrt(dx * dx + dy * dy) <= radius, for whole dx, dy and radius: the
\* root is compared through the least whole number not below it.
WithinDistance(dx, dy, radius) ==
    LET n == dx * dx + dy * dy
        root == ISqrt(n)
        least == IF root * root = n THEN root ELSE root + 1
    IN  least <= radius

\* A faulty radius query: the centre's cell is fetched with getCellAtWorldPos,
\* which constructs it when it is absent.
getEntitiesInRadiusCreating(W, centerX, centerY, radius) ==
    LET Scan(G) ==
            Return(G, { e \in G.heap[G.ret].entities :
                          WithinDistance(G.ents[e].position[1] - centerX,
                                         G.ents[e].position[2] - centerY,
                                         radius) })
    IN  Scan(getCellAtWorldPos(W, centerX, centerY))

\* Grid.getEntitiesInRadius(centerX, centerY, radius): returns the Set.
getEntitiesInRadius(W, centerX, centerY, radius) ==
    LET minCellX == FloorQuotient(centerX - radius, cellSize)
        maxCellX == FloorQuotient(centerX + radius, cellSize)
        minCellY == FloorQuotient(centerY - radius, cellSize)
        maxCellY == FloorQuotient(centerY + radius, cellSize)
        found == { k \in KeysInRange(minCellX, maxCellX, minCellY, maxCellY) :
                     Lookup(W, k) # Null }
        entities ==
            { e \in UNION { W.heap[Lookup(W, k)].entities : k \in found } :
                WithinDistance(W.ents[e].position[1] - centerX,
                               W.ents[e].position[2] - centerY, radius) }
    IN  Return(W, entities)

\* A faulty test: the far edges of the rectangle are left out.
InAreaHalfOpen(px, py, x, y, width, height) ==
    /\ px >= x
    /\ px < x + width
    /\ py >= y
    /\ py < y + height

\* getEntitiesInArea, lines 180-185: the test of an entity's position.
InArea(px, py, x, y, width, height) ==
    /\ px >= x
    /\ px <= x + width
    /\ py >= y
    /\ py <= y + height

\* Grid.getEntitiesInArea(x, y, width, height): returns the Set.
getEntitiesInArea(W, x, y, width, height) ==
    LET minCellX == FloorQuotient(x, cellSize)
        maxCellX == FloorQuotient(x + width, cellSize)
        minCellY == FloorQuotient(y, cellSize)
        maxCellY == FloorQuotient(y + height, cellSize)
        found == { k \in KeysInRange(minCellX, maxCellX, minCellY, maxCellY) :
                     Lookup(W, k) # Null }
        entities ==
            { e \in UNION { W.heap[Lookup(W, k)].entities : k \in found } :
                InArea(W.ents[e].position[1], W.ents[e].position[2],
                       x, y, width, height) }
    IN  Return(W, entities)

\* A faulty Cell.clear: the terrain flags are reset with the entity set.
CellClearTerrain(cell) ==
    [cell EXCEPT !.entities = {}, !.water = FALSE, !.beach = FALSE,
                 !.frozen = FALSE, !.desert = FALSE]

\* Cell.clear() on Cell instance c
CellClear(cell) == [cell EXCEPT !.entities = {}]

\* A faulty Grid.clear: the map is replaced, the Cells keep their entities.
clearMapOnly(W) == [W EXCEPT !.cells = <<>>]

\* Grid.clear()
clear(W) ==
    LET stored == { W.cells[k] : k \in DOMAIN W.cells }
    IN  [W EXCEPT
           !.heap = [c \in DOMAIN W.heap |->
                       IF c \in stored THEN CellClear(W.heap[c]) ELSE W.heap[c]],
           !.cells = <<>>]

-----------------------------------------------------------------------------
(* Cell: colour, neighbours and flow direction *)

\* A faulty Cell.getColor: the desert test comes before the water test.
getColorDesertFirst(cell) ==
    IF cell.desert THEN <<200, 200, 0>>
    ELSE IF cell.water THEN <<0, 0, 255>>
    ELSE IF cell.beach THEN <<255, 255, 0>>
    ELSE IF cell.frozen THEN <<240, 240, 240>>
    ELSE <<(cell.temperature * 255) \div Unit,
           (cell.soilFertility * 255) \div Unit,
           (cell.height * 255) \div Unit>>

\* Cell.getColor(): <<r, g, b>>
getColor(cell) ==
    IF cell.water THEN <<0, 0, 255>>
    ELSE IF cell.beach THEN <<255, 255, 0>>
    ELSE IF cell.frozen THEN <<240, 240, 240>>
    ELSE IF cell.desert THEN <<200, 200, 0>>
    ELSE <<(cell.temperature * 255) \div Unit,
           (cell.soilFertility * 255) \div Unit,
           (cell.height * 255) \div Unit>>

\* A faulty order of the offsets: dy in the outer loop, dx in the inner one.
NeighborOffsetsByRow(radius) ==
    LET side == 2 * radius + 1
        all == [i \in 1..(side * side) |->
                  <<((i - 1) % side) - radius, ((i - 1) \div side) - radius>>]
    IN  SelectSeq(all, LAMBDA d : ~(d[1] = 0 /\ d[2] = 0))

\* The offsets (dx, dy) of getNeighborsInRadius in loop order, the centre skipped.
NeighborOffsets(radius) ==
    LET side == 2 * radius + 1
        all == [i \in 1..(side * side) |->
                  <<((i - 1) \div side) - radius, ((i - 1) % side) - radius>>]
    IN  SelectSeq(all, LAMBDA d : ~(d[1] = 0 /\ d[2] = 0))

\* Cell.getNeighborsInRadius(radius) on Cell instance `this`: returns the array.
getNeighborsInRadius(W, this, radius) ==
    IF radius \in DOMAIN W.heap[this].neighborsInRadius
    THEN Return(W, W.heap[this].neighborsInRadius[radius])
    ELSE LET Cached(neighbors) ==
                 Return([W EXCEPT !.heap[this].neighborsInRadius =
                                      (radius :> neighbors) @@ @],
                        neighbors)
             Existing(offsets) ==
                 SelectSeq([i \in 1..Len(offsets) |->
                              Lookup(W, getCellKey(W.heap[this].x + offsets[i][1],
                                                   W.heap[this].y + offsets[i][2]))],
                           LAMBDA c : c # Null)
         IN  Cached(Existing(NeighborOffsets(radius)))

\* Victor.normalize() of a vector of whole or fixed-point components, as a
\* fixed-point vector; the zero vector normalizes to (1, 0).
Normalize(x, y) ==
    IF x = 0 /\ y = 0 THEN <<Unit, 0>>
    ELSE LET Scaled(length) == <<(x * Unit) \div length, (y * Unit) \div length>>
         IN  Scaled(ISqrt(x * x + y * y))

RECURSIVE FlowSumUphill(_, _, _, _)
FlowSumUphill(W, this, neighbors, i) ==
    IF i > Len(neighbors) THEN <<0, 0>>
    ELSE LET neighbor == W.heap[neighbors[i]]
             heightDifference == neighbor.height - W.heap[this].height
             dx == neighbor.x - W.heap[this].x
             dy == neighbor.y - W.heap[this].y
             Added(directionToNeighbor, rest) ==
                 <<Mul(directionToNeighbor[1], heightDifference) + rest[1],
                   Mul(directionToNeighbor[2], heightDifference) + rest[2]>>
         IN  Added(Normalize(dx * Unit, dy * Unit),
                   FlowSumUphill(W, this, neighbors, i + 1))

\* The sum of the neighbours' flow contributions, from the i-th neighbour on.
RECURSIVE FlowSum(_, _, _, _)
FlowSum(W, this, neighbors, i) ==
    IF i > Len(neighbors) THEN <<0, 0>>
    ELSE LET neighbor == W.heap[neighbors[i]]
             heightDifference == W.heap[this].height - neighbor.height
             dx == neighbor.x - W.heap[this].x
             dy == neighbor.y - W.heap[this].y
             Added(directionToNeighbor, rest) ==
                 <<Mul(directionToNeighbor[1], heightDifference) + rest[1],
                   Mul(directionToNeighbor[2], heightDifference) + rest[2]>>
         IN  Added(Normalize(dx * Unit, dy * Unit),
                   FlowSum(W, this, neighbors, i + 1))

FlowRadius == 3

\* Cell.calculateFlowDirection() on Cell instance `this`: returns the vector.
calculateFlowDirection(W, this) ==
    LET Assigned(N, direction) ==
            Return([N EXCEPT !.heap[this].flowDirection = direction], direction)
        Directed(N, flowVector) ==
            Assigned(N, IF flowVector[1] # 0 \/ flowVector[2] # 0
                        THEN Normalize(flowVector[1], flowVector[2])
                        ELSE <<0, 0>>)
        Summed(N) == Directed(N, FlowSum(N, this, N.ret, 1))
    IN  Summed(getNeighborsInRadius(W, this, FlowRadius))

getFlowDirectionUnflagged(W, this) ==
    IF ~W.heap[this].flowDirectionCalculated
    THEN LET Kept(F) == [F EXCEPT !.heap[this].flowDirection = F.ret]
         IN  Kept(calculateFlowDirection(W, this))
    ELSE Return(W, W.heap[this].flowDirection)

\* Cell.getFlowDirection() on Cell instance `this`
getFlowDirection(W, this) ==
    IF ~W.heap[this].flowDirectionCalculated
    THEN LET Kept(F) == [F EXCEPT !.heap[this].flowDirection = F.ret,
                                  !.heap[this].flowDirectionCalculated = TRUE]
         IN  Kept(calculateFlowDirection(W, this))
    ELSE Return(W, W.heap[this].flowDirection)

\* Cell.recalculateFlowDirection() on Cell instance `this`
recalculateFlowDirection(W, this) ==
    LET Kept(F) == Return([F EXCEPT !.heap[this].flowDirection = F.ret,
                                    !.heap[this].flowDirectionCalculated = TRUE],
                          Null)
    IN  Kept(calculateFlowDirection(W, this))

\* Entity.setPosition(x, y)
setPosition(W, e, x, y) ==
    [W EXCEPT !.ents[e].prevPosition = W.ents[e].position,
              !.ents[e].position = <<x, y>>]

\* Entity.move(dx, dy)
move(W, e, dx, dy) ==
    setPosition(W, e, W.ents[e].position[1] + dx, W.ents[e].position[2] + dy)

\* Entity.setVelocity(vx, vy)
setVelocity(W, e, vx, vy) == [W EXCEPT !.ents[e].velocity = <<vx, vy>>]

\* Entity.constructor, lines 235-238.  Velocities are in pixels per second,
\* accelerations in pixels per second squared, both whole; the friction
\* coefficient 0.95 and the time steps are fixed-point.
maxAcceleration == 500

maxSpeed == 2000

friction == 950

\* Victor.multiplyScalar by a fixed-point scalar.
Times(v, scalar) == <<Mul(v[1], scalar), Mul(v[2], scalar)>>

\* `if (v.magnitude() > limit) v.normalize().multiplyScalar(limit)`
Limited(v, limit) ==
    IF v[1] * v[1] + v[2] * v[2] > limit * limit
    THEN Times(Normalize(v[1], v[2]), limit)
    ELSE v

\* Entity.applyForce(force, y) with two numbers.
applyForce(W, e, fx, fy) ==
    IF W.ents[e].static THEN W
    ELSE [W EXCEPT !.ents[e].acceleration =
                      Limited(<<@[1] + fx, @[2] + fy>>, maxAcceleration)]

\* The value a call returns when it ends with
\* "TypeError: Cannot read properties of null".
TypeError == "TypeError"

\* The value of a call that returns nothing.
Undefined == "undefined"

\* The velocity Entity.update(deltaTime) gives the entity, lines 361-371.
UpdatedVelocity(entity, deltaTime) ==
    LET Slowed(velocity) == Limited(Times(velocity, friction), maxSpeed)
        Accelerated(accelDelta) ==
            Slowed(<<entity.velocity[1] + accelDelta[1],
                     entity.velocity[2] + accelDelta[2]>>)
    IN  Accelerated(Times(entity.acceleration, deltaTime))

\* The position Entity.update(deltaTime) gives the entity, lines 373-375.
UpdatedPosition(entity, deltaTime) ==
    LET Moved(velocityDelta) ==
            <<entity.position[1] + velocityDelta[1],
              entity.position[2] + velocityDelta[2]>>
    IN  Moved(Times(UpdatedVelocity(entity, deltaTime), deltaTime))

\* Entity.update(deltaTime) of an Entity that is not a Tree.  The statement
\* `this.z = this.currentCell.z` throws when currentCell is null: what was
\* assigned before it stays, what follows it is not executed.
entityUpdate(W, e, deltaTime) ==
    IF ~W.ents[e].active \/ W.ents[e].static THEN Return(W, Undefined)
    ELSE LET Stepped(position, velocity) ==
                 [W EXCEPT !.ents[e].prevPosition = W.ents[e].position,
                           !.ents[e].velocity = velocity,
                           !.ents[e].position = position]
             Indexed(W2) ==
                 IF W2.ents[e].position # W2.ents[e].prevPosition
                 THEN Return(updateEntity(W2, e), Undefined)
                 ELSE Return(W2, Undefined)
             Placed(W1) ==
                 IF W1.ents[e].currentCell = Null THEN Return(W1, TypeError)
                 ELSE Indexed([W1 EXCEPT
                                 !.ents[e].z = W1.heap[W1.ents[e].currentCell].z,
                                 !.ents[e].acceleration = <<0, 0>>])
         IN  Placed(Stepped(UpdatedPosition(W.ents[e], deltaTime),
                            UpdatedVelocity(W.ents[e], deltaTime)))

\* Tree.update(deltaTime), which overrides Entity.update.
treeUpdate(W, e, deltaTime) ==
    IF ~W.ents[e].active THEN Return(W, Undefined)
    ELSE IF W.ents[e].currentCell # Null
    THEN Return([W EXCEPT !.ents[e].z = W.heap[W.ents[e].currentCell].z], Undefined)
    ELSE Return(W, Undefined)

\* entity.update(deltaTime), dispatched on the entity's class.
update(W, e, deltaTime) ==
    IF W.ents[e].treeType # "none" THEN treeUpdate(W, e, deltaTime)
    ELSE entityUpdate(W, e, deltaTime)

-----------------------------------------------------------------------------
(* Game.js: the game loop *)

\* `this.gameLoop.bind(this)` makes a new function object at every
\* evaluation: the functions are numbered in the order of their creation, and
\* game.bound is the number made so far.  game.listeners are the functions
\* registered on app.ticker.

\* Game.start()
start(W) ==
    IF W.game.running THEN W
    ELSE [W EXCEPT !.game.running = TRUE,
                   !.game.bound = @ + 1,
                   !.game.listeners = @ \cup {W.game.bound + 1}]

\* Game.stop(): ticker.remove takes off the listeners equal to its argument,
\* which is a function made for this call.
stop(W) ==
    IF ~W.game.running THEN W
    ELSE [W EXCEPT !.game.running = FALSE,
                   !.game.bound = @ + 1,
                   !.game.listeners = @ \ {W.game.bound + 1}]

\* The cells Game.updateGridVisualization() draws, in the order of its loops.
\* The window of the code is the canvas and six cells around it; the model
\* draws this part of it.
VisibleCoords == << <<0, 0>> >>

\* Game.updateGridVisualization(): the visible cells are taken from the Grid.
RECURSIVE updateGridVisualization(_, _)
updateGridVisualization(W, i) ==
    IF i > Len(VisibleCoords) THEN W
    ELSE updateGridVisualization(
             getCell(W, VisibleCoords[i][1], VisibleCoords[i][2]), i + 1)

\* `this.entities.forEach(...)` of Game.gameLoop, from entity e on; entities
\* created while the loop runs are visited too.  An error of an update ends
\* the loop.
RECURSIVE updateEntities(_, _, _, _)
updateEntities(W, listener, e, deltaTime) ==
    IF e > Len(W.ents) THEN Return(W, Undefined)
    ELSE IF ~W.ents[e].active
    THEN updateEntities(W, listener, e + 1, deltaTime)
    ELSE LET Next1(W1) ==
                 IF W1.ret = TypeError THEN W1
                 ELSE updateEntities(W1, listener, e + 1, deltaTime)
         IN  Next1(update(Logged(W, [call |-> "update", entity |-> e,
                                     listener |-> listener]),
                          e, deltaTime))

\* Game.gameLoop(ticker) called as the given listener.  No entity of the
\* model has a grow or a regenerate method, and game.plants is empty.
gameLoop(W, listener, deltaTime) ==
    IF ~W.game.running THEN Return(W, Undefined)
    ELSE LET Drawn1(W1) ==
                 IF W1.ret = TypeError THEN W1
                 ELSE Return(updateGridVisualization(W1, 1), Undefined)
         IN  Drawn1(updateEntities(W, listener, 1, deltaTime))

\* One tick of app.ticker: every registered listener is called, in the order
\* of registration; an error ends the tick.
RECURSIVE emit(_, _, _)
emit(W, pending, deltaTime) ==
    IF pending = {} THEN Return(W, Undefined)
    ELSE LET first == CHOOSE l \in pending : \A m \in pending : l <= m
             Next1(W1) ==
                 IF W1.ret = TypeError THEN W1
                 ELSE emit(W1, pending \ {first}, deltaTime)
         IN  Next1(gameLoop(W, first, deltaTime))

\* `ticker.deltaTime / 60`, in seconds.
tick(W, tickerDeltaTime) ==
    emit(W, W.game.listeners, (tickerDeltaTime * Unit) \div 60)

-----------------------------------------------------------------------------
(* The calls the model makes *)

CellCoords == { <<0, 0>>, <<1, 0>>, <<-2, 2>> }

Positions == { <<0, 0>>, <<50, 0>>, <<-1, -1>> }

RadiusQueries == { <<0, 0, 49>>, <<0, 0, 50>> }

AreaQueries == { <<0, 0, 50, 0>>, <<-1, -1, 50, 1>> }

NeighborRadii == { 1 }

WorldPoints == { <<-1, -1>>, <<49, 0>>, <<50, 0>>, <<120, -30>> }

\* The Cell instances the Grid's map stores.
StoredCells == { cells[k] : k \in DOMAIN cells }

\* The Cell instances a caller can hold: those the Grid stores and those an
\* entity points to.
HeldCells ==
    ({ cells[k] : k \in DOMAIN cells }
        \cup { ents[e].currentCell : e \in DOMAIN ents }) \ { Null }

\* The program's state after an operation that ran in world W.
Effect(W, name, args) ==
    /\ cells' = W.cells
    /\ heap' = W.heap
    /\ ents' = W.ents
    /\ noise' = W.noise
    /\ game' = W.game
    /\ op' = [name |-> name, args |-> args, ret |-> W.ret, log |-> W.log]
    /\ returned' = returned \cup
           { <<W.log[i].cellX, W.log[i].cellY, W.log[i].cell>> :
               i \in { j \in DOMAIN W.log : W.log[j].call = "getCell" } }

\* The state after an operation that ran in world W, one step further.
Record(W, name, args) ==
    /\ steps < MaxSteps
    /\ steps' = steps + 1
    /\ Effect(W, name, args)

\* The state after an operation that ran in world W, within the bounds.
Commit(W, name, args) ==
    /\ steps < MaxSteps
    /\ steps' = steps + 1
    /\ Len(W.heap) <= MaxCells
    /\ Len(W.ents) <= MaxEntities
    /\ Effect(W, name, args)

Init ==
    /\ cells = <<>>
    /\ heap = <<>>
    /\ ents = <<>>
    /\ noise = [soil |-> PerlinNoise(SoilSeed),
                height |-> PerlinNoise(HeightSeed),
                temperature |-> PerlinNoise(TemperatureSeed)]
    /\ op = [name |-> "new Game", args |-> <<>>, ret |-> Null, log |-> <<>>]
    /\ returned = {}
    /\ steps = 0
    /\ game = [running |-> FALSE, listeners |-> {}, bound |-> 0]

GetCell ==
    \E c \in CellCoords : \E tape \in TapesFor(c[1], c[2]) :
        Commit(getCell(World(tape), c[1], c[2]), "getCell", c)

GetCellAtWorldPos ==
    \E p \in WorldPoints : \E tape \in TapesAt(p[1], p[2]) :
        Commit(getCellAtWorldPos(World(tape), p[1], p[2]), "getCellAtWorldPos", p)

WorldToCell ==
    \E p \in WorldPoints :
        Commit(Return(World(<<>>), worldToCell(p[1], p[2])), "worldToCell", p)

CreateEntity ==
    \E p \in Positions : \E tape \in TapesAt(p[1], p[2]) :
        /\ Len(ents) < MaxEntities
        /\ Commit(newEntity(World(tape), p[1], p[2]), "createEntity", p)

SetPosition ==
    \E e \in DOMAIN ents, p \in Positions :
        Commit(setPosition(World(<<>>), e, p[1], p[2]), "setPosition", <<e, p[1], p[2]>>)

AddEntity ==
    \E e \in DOMAIN ents :
      \E tape \in TapesAt(ents[e].position[1], ents[e].position[2]) :
        Commit(addEntity(World(tape), e), "addEntity", <<e>>)

RemoveEntity ==
    \E e \in DOMAIN ents :
        Commit(removeEntity(World(<<>>), e), "removeEntity", <<e>>)

UpdateEntity ==
    \E e \in DOMAIN ents :
      \E tape \in TapesAt(ents[e].position[1], ents[e].position[2]) :
        Commit(updateEntity(World(tape), e), "updateEntity", <<e>>)

GetEntitiesInRadius ==
    \E q \in RadiusQueries :
        Commit(getEntitiesInRadius(World(<<>>), q[1], q[2], q[3]),
               "getEntitiesInRadius", q)

GetEntitiesInArea ==
    \E q \in AreaQueries :
        Commit(getEntitiesInArea(World(<<>>), q[1], q[2], q[3], q[4]),
               "getEntitiesInArea", q)

Clear ==
    Commit(clear(World(<<>>)), "clear", <<>>)

GetColor ==
    \E c \in HeldCells :
        Commit(Return(World(<<>>), getColor(heap[c])), "getColor", <<c>>)

GetNeighborsInRadius ==
    \E c \in HeldCells, radius \in NeighborRadii :
        Commit(getNeighborsInRadius(World(<<>>), c, radius),
               "getNeighborsInRadius", <<c, radius>>)

GetFlowDirection ==
    \E c \in HeldCells :
        Commit(getFlowDirection(World(<<>>), c), "getFlowDirection", <<c>>)

RecalculateFlowDirection ==
    \E c \in HeldCells :
        Commit(recalculateFlowDirection(World(<<>>), c),
               "recalculateFlowDirection", <<c>>)

Next ==
    \/ GetCell
    \/ CreateEntity
    \/ SetPosition
    \/ AddEntity
    \/ RemoveEntity
    \/ UpdateEntity
    \/ GetEntitiesInRadius
    \/ GetEntitiesInArea
    \/ Clear
    \/ GetColor
    \/ GetNeighborsInRadius
    \/ GetFlowDirection
    \/ RecalculateFlowDirection

Spec == Init /\ [][Next]_vars

\* The index-maintenance calls alone: entities are created, moved, added,
\* updated and removed.
IndexNext ==
    \/ CreateEntity
    \/ SetPosition
    \/ AddEntity
    \/ RemoveEntity
    \/ UpdateEntity

SpecIndex == Init /\ [][IndexNext]_vars

\* The coordinate conversions and the cell look-ups.
ConvNext ==
    \/ WorldToCell
    \/ GetCellAtWorldPos
    \/ GetCell

SpecConv == Init /\ [][ConvNext]_vars

-----------------------------------------------------------------------------
(* Grid.getCell with longer runs of Math.random() draws, so that the Cell   *)
(* being constructed spawns trees whose own construction re-enters getCell  *)
(* several levels deep.                                                     *)

SpawnTapes == TapesOver(Rolls \cup { FarRoll }, SpawnRolls)

\* Draws are made only while a Cell is constructed.
SpawnTapesFor(cellX, cellY) ==
    IF <<cellX, cellY>> \in DOMAIN cells THEN { <<>> } ELSE SpawnTapes

\* A coordinate of land where two types can grow, and one of water.
SpawnCoords == { <<0, 0>>, <<-2, 2>> }

GetCellSpawning ==
    \E c \in SpawnCoords : \E tape \in SpawnTapesFor(c[1], c[2]) :
        Record(getCell(World(tape), c[1], c[2]), "getCell", c)

SpecSpawn == Init /\ [][GetCellSpawning]_vars

-----------------------------------------------------------------------------
(* Cell.getNeighborsInRadius on a Grid that holds several Cells.  Every     *)
(* Math.random() draw is close to 1, so no tree is spawned.                 *)

NeighborCoords == { <<0, 0>>, <<-1, 1>>, <<1, 0>> }

SearchRadii == { 1, 2 }

GetCellNear ==
    \E c \in NeighborCoords :
        /\ Effect(getCell(World(<<>>), c[1], c[2]), "getCell", c)
        /\ UNCHANGED steps

GetNeighborsNear ==
    \E c \in StoredCells, radius \in SearchRadii :
        /\ Effect(getNeighborsInRadius(World(<<>>), c, radius),
                  "getNeighborsInRadius", <<c, radius>>)
        /\ UNCHANGED steps

NeighborsNext ==
    \/ GetCellNear
    \/ GetNeighborsNear

SpecNeighbors == Init /\ [][NeighborsNext]_vars

\* Flow directions on a growing map: cells are materialized around
\* the origin without trees, and the cells the Grid stores are asked for their
\* flow direction or told to recalculate it.
GetFlowNear ==
    \E c \in StoredCells :
        /\ Effect(getFlowDirection(World(<<>>), c), "getFlowDirection", <<c>>)
        /\ UNCHANGED steps

RecalculateFlowNear ==
    \E c \in StoredCells :
        /\ Effect(recalculateFlowDirection(World(<<>>), c),
                  "recalculateFlowDirection", <<c>>)
        /\ UNCHANGED steps

FlowNext ==
    \/ GetCellNear
    \/ GetFlowNear
    \/ RecalculateFlowNear

SpecFlow == Init /\ [][FlowNext]_vars

\* Cell.calculateFlowDirection() as a function of the terrain: a map holding
\* the Cell (0,0) and any of the cells at SlopeOffsets, with heights sampled
\* from SlopeHeights, none of which has cached anything yet.  The offset
\* <<4, 0>> lies outside the radius of the calculation.
SlopeOffsets == << <<1, 0>>, <<-1, 0>>, <<0, 3>>, <<2, -2>>, <<4, 0>> >>

SlopeHeights == { 400, 500, 600 }

Unmaterialized == 0

RECURSIVE Slope(_, _, _)
Slope(W, heights, i) ==
    IF i > Len(SlopeOffsets) THEN W
    ELSE Slope(IF heights[i] = Unmaterialized THEN W
               ELSE [W EXCEPT
                       !.heap = Append(@, CellFields(SlopeOffsets[i][1],
                                                     SlopeOffsets[i][2],
                                                     500, heights[i], 500)),
                       !.cells = (getCellKey(SlopeOffsets[i][1],
                                             SlopeOffsets[i][2])
                                    :> (Len(W.heap) + 1)) @@ @],
               heights, i + 1)

SlopeAround(own, heights) ==
    Slope([World(<<>>) EXCEPT
             !.heap = <<CellFields(0, 0, 500, own, 500)>>,
             !.cells = (getCellKey(0, 0) :> 1)],
          heights, 1)

CalculateFlowDirection ==
    \E own \in SlopeHeights,
       heights \in [DOMAIN SlopeOffsets -> SlopeHeights \cup {Unmaterialized}] :
        /\ op.name = "new Game"
        /\ Effect(calculateFlowDirection(SlopeAround(own, heights), 1),
                  "calculateFlowDirection", <<1>>)
        /\ UNCHANGED steps

SpecSlope == Init /\ [][CalculateFlowDirection]_vars

\* Entities in motion: they are created, repositioned, given velocities and
\* forces, removed from the grid, and updated by a time step (in seconds,
\* fixed-point).
MoveDeltas == { <<50, 0>> }

Velocities == { <<60, 0>>, <<-20, 0>>, <<4000, 0>> }

Forces == { <<20, 0>>, <<800, 0>> }

DeltaTimes == { 100, 1000 }

\* Positions stay within this distance of the origin on both axes.
Reach == 750

InReach(position) == Abs(position[1]) <= Reach /\ Abs(position[2]) <= Reach

\* The products of Entity.update(deltaTime) are whole in the units of the
\* model, so that the update computes the numbers the code computes.
ExactUpdate(entity, deltaTime) ==
    LET Exact(v, scalar) ==
            (v[1] * scalar) % Unit = 0 /\ (v[2] * scalar) % Unit = 0
        Sum(a, b) == <<a[1] + b[1], a[2] + b[2]>>
        OnAxis(v) == v[1] = 0 \/ v[2] = 0
    IN  /\ Exact(entity.acceleration, deltaTime)
        /\ Exact(Sum(entity.velocity, Times(entity.acceleration, deltaTime)),
                 friction)
        /\ OnAxis(entity.velocity) /\ OnAxis(entity.acceleration)
        /\ Exact(UpdatedVelocity(entity, deltaTime), deltaTime)

Move ==
    \E e \in DOMAIN ents, d \in MoveDeltas :
        /\ InReach(<<ents[e].position[1] + d[1], ents[e].position[2] + d[2]>>)
        /\ Commit(move(World(<<>>), e, d[1], d[2]), "move", <<e, d[1], d[2]>>)

SetVelocity ==
    \E e \in DOMAIN ents, v \in Velocities :
        Commit(setVelocity(World(<<>>), e, v[1], v[2]),
               "setVelocity", <<e, v[1], v[2]>>)

ApplyForce ==
    \E e \in DOMAIN ents, f \in Forces :
        Commit(applyForce(World(<<>>), e, f[1], f[2]),
               "applyForce", <<e, f[1], f[2]>>)

Update ==
    \E e \in DOMAIN ents, deltaTime \in DeltaTimes :
        /\ steps < MaxSteps
        /\ ExactUpdate(ents[e], deltaTime)
        /\ InReach(UpdatedPosition(ents[e], deltaTime))
        /\ \E tape \in TapesAt(UpdatedPosition(ents[e], deltaTime)[1],
                               UpdatedPosition(ents[e], deltaTime)[2]) :
               Commit(update(World(tape), e, deltaTime),
                      "update", <<e, deltaTime>>)

MotionNext ==
    \/ CreateEntity
    \/ SetPosition
    \/ Move
    \/ SetVelocity
    \/ ApplyForce
    \/ RemoveEntity
    \/ Update

SpecMotion == Init /\ [][MotionNext]_vars

\* The game loop: entities are created, the game is started and stopped, and
\* the ticker ticks.
MaxBound == 4

TickerDeltaTimes == { 6 }

Start ==
    /\ game.bound < MaxBound
    /\ Effect(start(World(<<>>)), "start", <<>>)
    /\ UNCHANGED steps

Stop ==
    /\ game.bound < MaxBound
    /\ Effect(stop(World(<<>>)), "stop", <<>>)
    /\ UNCHANGED steps

Tick ==
    \E tickerDeltaTime \in TickerDeltaTimes :
      \E tape \in TapesFor(VisibleCoords[1][1], VisibleCoords[1][2]) :
        /\ Effect(tick(World(tape), tickerDeltaTime), "tick", <<tickerDeltaTime>>)
        /\ UNCHANGED steps

LoopNext ==
    \/ CreateEntity
    \/ Start
    \/ Stop
    \/ Tick

SpecLoop == Init /\ [][LoopNext]_vars

-----------------------------------------------------------------------------
(* Cell's pure computations, applied to noise values drawn from [0, 1]: the *)
(* terrain flags of the constructor, getColor, and the spawn chances.       *)

\* Noise values (fixed-point) on both sides of every threshold.
HeightSamples ==
    { 300, 399, 400, 401, 449, 450, 500, 650 }

TemperatureSamples ==
    { 299, 300, 301, 500, 650, 700, 701, 900 }

SoilSamples == { 500, 650 }

\* Tree.types with a type that has no entry in treePreferences.
UnknownType == "cactus"

TypesWithUnknown == <<"oak", UnknownType, "pine", "birch", "palm", "maple">>

\* Cell.constructor, lines 236-254: the fields derived from the noise values.
\* Nothing of the program's state changes.
CellTerrain ==
    \E s \in SoilSamples, h \in HeightSamples, t \in TemperatureSamples :
        /\ op' = [name |-> "Cell", args |-> <<s, h, t>>,
                  ret |-> CellFields(0, 0, s, h, t), log |-> <<>>]
        /\ UNCHANGED <<cells, heap, ents, noise, returned, steps, game>>

\* Cell.getColor() of a Cell with these noise values.
CellColor ==
    \E s \in SoilSamples, h \in HeightSamples, t \in TemperatureSamples :
        /\ op' = [name |-> "Cell.getColor", args |-> <<s, h, t>>,
                  ret |-> getColor(CellFields(0, 0, s, h, t)), log |-> <<>>]
        /\ UNCHANGED <<cells, heap, ents, noise, returned, steps, game>>

\* spawnTreesHere, lines 266-288, of a Cell with these noise values, over
\* Tree.types and over a list that holds an unknown type.
CellTreeChances ==
    \E s \in SoilSamples, h \in HeightSamples, t \in TemperatureSamples,
       types \in { TreeTypes, TypesWithUnknown } :
        /\ op' = [name |-> "treeChances", args |-> <<s, h, t, types>>,
                  ret |-> treeChances(CellFields(0, 0, s, h, t), types),
                  log |-> <<>>]
        /\ UNCHANGED <<cells, heap, ents, noise, returned, steps, game>>

\* Coordinates of noise(x, y): fixed-point reals, negative ones and lattice
\* points among them, and doubles of huge magnitude.
NoiseCoords == { -Huge, -1500, -250, 0, 500, 1000, 1999, Huge }

Seeds == { SoilSeed, HeightSeed, TemperatureSeed }

\* noise(x, y) on a new generator, and the same call once more on the
\* generator the first call leaves.
Noise ==
    \E seed \in Seeds, x \in NoiseCoords, y \in NoiseCoords :
        /\ op' = [name |-> "noise", args |-> <<seed, x, y>>,
                  ret |-> noiseOfDouble(PerlinNoise(seed), x, y).ret,
                  log |-> <<[call |-> "noise",
                             ret |-> noiseOfDouble(
                                 noiseOfDouble(PerlinNoise(seed), x, y).gen,
                                 x, y).ret]>>]
        /\ UNCHANGED <<cells, heap, ents, noise, returned, steps, game>>

SpecNoise == Init /\ [][Noise]_vars

TerrainNext ==
    \/ CellTerrain
    \/ CellColor
    \/ CellTreeChances

SpecTerrain == Init /\ [][TerrainNext]_vars

-----------------------------------------------------------------------------
(* Properties *)

\* Entity e's position lies in the square of Cell instance c.
InSquare(e, c) ==
    /\ heap[c].x * cellSize <= ents[e].position[1]
    /\ ents[e].position[1] < (heap[c].x + 1) * cellSize
    /\ heap[c].y * cellSize <= ents[e].position[2]
    /\ ents[e].position[2] < (heap[c].y + 1) * cellSize

\* C1: every entity whose currentCell is non-null is a member of its
\* currentCell's entity set and of no other Cell's entity set, after any
\* sequence of addEntity, updateEntity and removeEntity calls with position
\* changes in between.  Stated of the entities that Game.createEntity made,
\* which leaves aside the trees made while a Cell is constructed.
IndexInvariant ==
    \A e \in DOMAIN ents :
        (ents[e].currentCell # Null /\ ents[e].treeType = "none") =>
            \A c \in DOMAIN heap :
                (e \in heap[c].entities) <=> (c = ents[e].currentCell)

\* C2: when Grid.addEntity(e) or Grid.updateEntity(e) returns, e.currentCell
\* is the Cell whose coordinates are the floors of e's position over cellSize,
\* e is in that Cell's entity set, and the Grid's map stores that Cell under
\* those coordinates, also when the call had to construct it.
AddUpdatePostState ==
    \A i \in DOMAIN op.log :
        op.log[i].call \in { "addEntity", "updateEntity" } =>
            /\ op.log[i].currentCell # Null
            /\ op.log[i].cellX * cellSize <= op.log[i].position[1]
            /\ op.log[i].position[1] < (op.log[i].cellX + 1) * cellSize
            /\ op.log[i].cellY * cellSize <= op.log[i].position[2]
            /\ op.log[i].position[2] < (op.log[i].cellY + 1) * cellSize
            /\ op.log[i].member
            /\ op.log[i].stored = op.log[i].currentCell

\* C2's case: updateEntity moved an entity into a cell of negative coordinates
\* that the same call constructed.
LazyCreateOnUpdate ==
    /\ op.name = "updateEntity"
    /\ \E i, j \in DOMAIN op.log :
        /\ op.log[i].call = "getCell"
        /\ op.log[i].created
        /\ op.log[i].cellX < 0
        /\ op.log[j].call = "updateEntity"
        /\ op.log[j].before # Null
        /\ op.log[j].currentCell = op.log[i].cell

\* C3: any two calls of Grid.getCell with the same coordinates return the
\* same Cell instance, whatever happens between or during them.
GetCellIdentity ==
    \A a, b \in returned :
        (a[1] = b[1] /\ a[2] = b[2]) => a[3] = b[3]

\* Entity e has been added and not removed, and its index entry is up to
\* date: its currentCell's set holds it and its position is in that Cell.
UpToDate(e) ==
    /\ ents[e].currentCell # Null
    /\ e \in heap[ents[e].currentCell].entities
    /\ InSquare(e, ents[e].currentCell)

\* C4: Grid.getEntitiesInRadius(cx, cy, r) misses no added entity whose index
\* entry is up to date and whose distance from (cx, cy) is at most r, trees
\* created during a cell's construction included.
RadiusQueryMissesNone ==
    op.name = "getEntitiesInRadius" =>
        \A e \in DOMAIN ents :
            ( /\ UpToDate(e)
              /\ (ents[e].position[1] - op.args[1]) * (ents[e].position[1] - op.args[1])
                   + (ents[e].position[2] - op.args[2]) * (ents[e].position[2] - op.args[2])
                   <= op.args[3] * op.args[3] )
            => e \in op.ret

\* C5: getEntitiesInRadius and getEntitiesInArea change neither the cell map,
\* nor any Cell (its entity set included; none is constructed), nor any entity.
QueriesArePure ==
    [][ op'.name \in { "getEntitiesInRadius", "getEntitiesInArea" } =>
            (cells' = cells /\ heap' = heap /\ ents' = ents) ]_vars

\* C5's case: a radius query found an entity while most cells of its range
\* were absent from the map.
QueryOverAbsentCells ==
    /\ op.name = "getEntitiesInRadius"
    /\ op.ret # {}
    /\ Cardinality(DOMAIN cells) = 1

\* The entity's position maps to the Cell that is its currentCell.
SameCell(e) ==
    /\ ents[e].currentCell # Null
    /\ Lookup([cells |-> cells],
              getCellKey(worldToCell(ents[e].position[1],
                                     ents[e].position[2]).cellX,
                         worldToCell(ents[e].position[1],
                                     ents[e].position[2]).cellY))
         = ents[e].currentCell

\* C6: Grid.updateEntity(e), called when e's position maps to e.currentCell,
\* changes no Cell's entity set, leaves e.currentCell as it is and constructs
\* no Cell.
UpdateSameCellNoOp ==
    [][ (op'.name = "updateEntity" /\ SameCell(op'.args[1])) =>
            (cells' = cells /\ heap' = heap /\ ents' = ents) ]_vars

\* C6's case: updateEntity returned with the entity in the Cell it was in.
UpdateInPlace ==
    /\ op.name = "updateEntity"
    /\ \E i \in DOMAIN op.log :
        /\ op.log[i].call = "updateEntity"
        /\ op.log[i].before # Null
        /\ op.log[i].before = op.log[i].currentCell
        /\ op.log[i].stored = op.log[i].currentCell

\* The entities in the entity set of a Cell the map stores.
Indexed ==
    { e \in DOMAIN ents : \E c \in StoredCells : e \in heap[c].entities }

\* Those of them whose position lies in such a Cell's square.
IndexedInPlace ==
    { e \in DOMAIN ents :
        \E c \in StoredCells : e \in heap[c].entities /\ InSquare(e, c) }

\* Entity e's position is in the closed rectangle of the last area query.
InsideQueriedArea(e) ==
    /\ op.args[1] <= ents[e].position[1]
    /\ ents[e].position[1] <= op.args[1] + op.args[3]
    /\ op.args[2] <= ents[e].position[2]
    /\ ents[e].position[2] <= op.args[2] + op.args[4]

\* C7: Grid.getEntitiesInArea(x, y, w, h) returns every indexed entity that is
\* in the Cell of its position and in the closed rectangle [x, x+w] x [y, y+h],
\* edges included, and returns only indexed entities in that rectangle: exactly
\* the indexed entities in the rectangle when every one is in its Cell.
AreaQueryClosedRectangle ==
    op.name = "getEntitiesInArea" =>
        /\ { e \in IndexedInPlace : InsideQueriedArea(e) } \subseteq op.ret
        /\ op.ret \subseteq { e \in Indexed : InsideQueriedArea(e) }

\* C7's case: the query (0, 0, 50, 0) returned an entity on the edge x + w and
\* left out an indexed entity outside the rectangle.
AreaEdgeIncluded ==
    /\ op.name = "getEntitiesInArea"
    /\ op.args = <<0, 0, 50, 0>>
    /\ \E e \in op.ret : ents[e].position = <<50, 0>>
    /\ \E e \in IndexedInPlace \ op.ret : ents[e].position = <<-1, -1>>

\* The whole c with c * cellSize <= w < (c + 1) * cellSize.
CellOf(w) ==
    CHOOSE c \in -4..4 : c * cellSize <= w /\ w < (c + 1) * cellSize

\* C8: worldToCell(x, y) returns the cellX with cellX * cellSize <= x <
\* (cellX + 1) * cellSize, likewise cellY: (-1,-1) -> (-1,-1), (49,0) -> (0,0),
\* (50,0) -> (1,0); and getCellAtWorldPos(x, y) returns the Cell that getCell
\* returns for those coordinates.
FloorDivision ==
    /\ op.name = "worldToCell" =>
        /\ op.ret = [cellX |-> CellOf(op.args[1]), cellY |-> CellOf(op.args[2])]
        /\ (op.args = <<-1, -1>> => op.ret = [cellX |-> -1, cellY |-> -1])
        /\ (op.args = <<49, 0>> => op.ret = [cellX |-> 0, cellY |-> 0])
        /\ (op.args = <<50, 0>> => op.ret = [cellX |-> 1, cellY |-> 0])
    /\ op.name = "getCellAtWorldPos" =>
        /\ op.ret = getCell(World(<<>>), CellOf(op.args[1]), CellOf(op.args[2])).ret
        /\ heap[op.ret].x = CellOf(op.args[1])
        /\ heap[op.ret].y = CellOf(op.args[2])

\* C8's case: getCellAtWorldPos(120, -30) returned the Cell of (2, -1).
WorldPosInNegativeRow ==
    /\ op.name = "getCellAtWorldPos"
    /\ op.args = <<120, -30>>
    /\ heap[op.ret].x = 2
    /\ heap[op.ret].y = -1
    /\ op.ret = getCell(World(<<>>), 2, -1).ret

\* A Cell's terrain attributes.
TerrainOf(cell) ==
    [soilFertility |-> cell.soilFertility, height |-> cell.height,
     temperature |-> cell.temperature, water |-> cell.water,
     beach |-> cell.beach, frozen |-> cell.frozen, desert |-> cell.desert,
     worldX |-> cell.worldX, worldY |-> cell.worldY, z |-> cell.z]

\* C9: no operation changes the terrain attributes of a Cell that has been
\* constructed.
TerrainImmutable ==
    [][ \A c \in DOMAIN heap : TerrainOf(heap'[c]) = TerrainOf(heap[c]) ]_vars

\* C9's case: recalculateFlowDirection gave a Cell a flow direction.
FlowRecalculated ==
    /\ op.name = "recalculateFlowDirection"
    /\ heap[op.args[1]].flowDirection # <<0, 0>>

\* The Cell that a Grid just constructed makes of (x, y) as its first Cell.
FirstCell(x, y) ==
    CellFields(x, y,
               PerlinSample(PerlinNoise(SoilSeed),
                            x * soilFrequency, y * soilFrequency).ret,
               PerlinSample(PerlinNoise(HeightSeed),
                            x * heightFrequency, y * heightFrequency).ret,
               PerlinSample(PerlinNoise(TemperatureSeed),
                            x * temperatureFrequency,
                            y * temperatureFrequency).ret)

\* The coordinates the calls reach, each with that Cell's terrain.
FirstTerrain ==
    { [x |-> k[1], y |-> k[2], terrain |-> TerrainOf(FirstCell(k[1], k[2]))] :
        k \in (-2..2) \X (-1..2) }

\* C10: every Cell, whatever was requested before it and whether or not the
\* Grid was cleared, has the terrain that another Grid gives the same
\* coordinates when they are the first it is asked for.
TerrainDeterministic ==
    \A c \in DOMAIN heap :
        [x |-> heap[c].x, y |-> heap[c].y, terrain |-> TerrainOf(heap[c])]
            \in FirstTerrain

\* C10's case: a coordinate was constructed again after Grid.clear().
RegeneratedAfterClear ==
    /\ op.name = "getCell"
    /\ ents = <<>>
    /\ \E c, d \in DOMAIN heap :
        c # d /\ heap[c].x = heap[d].x /\ heap[c].y = heap[d].y

\* The Cell of an operation of SpecTerrain, rebuilt from its arguments.
ArgumentCell == CellFields(0, 0, op.args[1], op.args[2], op.args[3])

\* C11: a new Cell's flags follow its noise values: water iff height < 0.4,
\* beach iff 0.4 <= height < 0.45, frozen iff temperature < 0.3, desert iff
\* temperature > 0.7; water and beach are never both true.
TerrainFlags ==
    op.name = "Cell" =>
        LET height == op.args[2]
            temperature == op.args[3]
        IN  /\ op.ret.water <=> height < 400
            /\ op.ret.beach <=> (400 <= height /\ height < 450)
            /\ op.ret.frozen <=> temperature < 300
            /\ op.ret.desert <=> temperature > 700
            /\ ~(op.ret.water /\ op.ret.beach)

\* C12: getColor returns blue for water, else yellow for beach, else near-white
\* for frozen, else dark yellow for desert, else (temperature, soilFertility,
\* height) scaled by 255; every component lies in 0..255.
ColorPriority ==
    op.name = "Cell.getColor" =>
        LET cell == ArgumentCell
        IN  /\ op.ret =
                 CASE cell.water -> <<0, 0, 255>>
                   [] ~cell.water /\ cell.beach -> <<255, 255, 0>>
                   [] ~cell.water /\ ~cell.beach /\ cell.frozen ->
                        <<240, 240, 240>>
                   [] ~cell.water /\ ~cell.beach /\ ~cell.frozen /\ cell.desert ->
                        <<200, 200, 0>>
                   [] OTHER -> <<(op.args[3] * 255) \div Unit,
                                 (op.args[1] * 255) \div Unit,
                                 (op.args[2] * 255) \div Unit>>
            /\ \A i \in 1..3 : op.ret[i] \in 0..255

\* A Cell that is water and desert at once is blue.
WaterBeforeDesert ==
    /\ op.name = "Cell.getColor"
    /\ ArgumentCell.water /\ ArgumentCell.desert
    /\ op.ret = <<0, 0, 255>>

\* C16: an unknown flora type gets spawn chance 0, is no candidate for
\* spawning, and leaves the candidates of the other types as they are.
UnknownTypeYieldsZero ==
    op.name = "treeChances" =>
        /\ calculateTreeSpawnChance(op.args[2], op.args[1], op.args[3],
                                    UnknownType) = 0
        /\ \A i \in DOMAIN op.ret : op.ret[i].type # UnknownType
        /\ op.ret = treeChances(ArgumentCell, TreeTypes)

\* The list with the unknown type was rated and other types can grow.
UnknownTypeAmongOthers ==
    /\ op.name = "treeChances"
    /\ op.args[4] = TypesWithUnknown
    /\ Len(op.ret) >= 2

\* C19: noise(x, y) lies in [0, 1] for every finite (x, y), negative and
\* large-magnitude coordinates included, on the first call and on the
\* memoized one.
NoiseInUnitInterval ==
    op.name = "noise" =>
        /\ op.ret \in 0..Unit
        /\ op.log[1].ret \in 0..Unit

\* The entries of the last operation's log that record a call of this name.
Calls(name) == { i \in DOMAIN op.log : op.log[i].call = name }

\* The logged calls of this name that concern cell coordinate (cellX, cellY).
CallsAt(name, cellX, cellY) ==
    { i \in Calls(name) : op.log[i].cellX = cellX /\ op.log[i].cellY = cellY }

SpawnOncePerCoordinate ==
    op.name = "getCell" =>
        /\ Cardinality(CallsAt("spawnTreesHere", op.args[1], op.args[2])) =
               IF op.log[Len(op.log)].created THEN 1 ELSE 0
        /\ \A i \in Calls("createTree") : ~heap[op.log[i].cell].water

\* C15: materializing one coordinate creates at most 2 trees, each at a
\* position inside the cell's world square, and the types are tried in
\* descending order of chance.
AtMostTwoTrees ==
    op.name = "getCell" =>
        /\ Cardinality(CallsAt("createTree", op.args[1], op.args[2])) <= 2
        /\ \A i \in Calls("createTree") :
              /\ op.log[i].cellX * cellSize <= op.log[i].x
              /\ op.log[i].x < (op.log[i].cellX + 1) * cellSize
              /\ op.log[i].cellY * cellSize <= op.log[i].y
              /\ op.log[i].y < (op.log[i].cellY + 1) * cellSize
        /\ \A i, j \in Calls("roll") :
              i < j /\ op.log[i].cell = op.log[j].cell =>
                  op.log[i].chance >= op.log[j].chance

\* What the radius and area queries of the model return in the current state.
QueryResults ==
    { getEntitiesInRadius(World(<<>>), q[1], q[2], q[3]).ret : q \in RadiusQueries }
        \cup { getEntitiesInArea(World(<<>>), q[1], q[2], q[3], q[4]).ret :
                 q \in AreaQueries }

\* C17: after removeEntity(e) the entity has no current cell, is a member of
\* no Cell's entity set and is returned by no radius or area query; removing
\* it once more changes nothing.
RemoveLeavesNoTrace ==
    op.name = "removeEntity" =>
        LET e == op.args[1]
        IN  /\ ents[e].currentCell = Null
            /\ \A c \in DOMAIN heap : e \notin heap[c].entities
            /\ \A result \in QueryResults : e \notin result
            /\ removeEntity(World(<<>>), e) = World(<<>>)

\* No stored Cell holds an entity.
IndexEmpty == \A c \in StoredCells : heap[c].entities = {}

\* Every radius and area query of the model returns the empty set.
QueriesEmpty == \A result \in QueryResults : result = {}

\* The last operation called Grid.addEntity or Grid.updateEntity.
AddedOrUpdated ==
    \E i \in DOMAIN op.log : op.log[i].call \in { "addEntity", "updateEntity" }

\* C18: Grid.clear() leaves the map empty and every Cell it stored with an
\* empty entity set, and destroys no entity; from then on, until an
\* operation adds or updates an entity, every query returns the empty set.
ClearEmptiesIndex ==
    [][/\ op'.name = "clear" =>
             /\ cells' = <<>>
             /\ \A c \in StoredCells : heap'[c].entities = {}
             /\ ents' = ents
             /\ IndexEmpty' /\ QueriesEmpty'
       /\ IndexEmpty /\ ~AddedOrUpdated' => IndexEmpty' /\ QueriesEmpty']_vars

\* clear() was called while an entity at the origin was in a stored Cell: the
\* entity is still there and its Cell's set is empty.
ClearedWithEntity ==
    /\ op.name = "clear"
    /\ \E e \in DOMAIN ents :
          /\ ents[e].position = <<0, 0>>
          /\ ents[e].currentCell # Null
          /\ heap[ents[e].currentCell].entities = {}

\* The offset of Cell instance c from Cell instance this.
Offset(this, c) == <<heap[c].x - heap[this].x, heap[c].y - heap[this].y>>

\* Cell instance c lies within the radius of Cell instance this, off its centre.
Around(this, c, radius) ==
    /\ Abs(Offset(this, c)[1]) <= radius
    /\ Abs(Offset(this, c)[2]) <= radius
    /\ Offset(this, c) # <<0, 0>>

\* Offset a comes before offset b: ascending dx, then ascending dy.
Before(a, b) == a[1] < b[1] \/ (a[1] = b[1] /\ a[2] < b[2])

\* C20: the first getNeighborsInRadius(radius) call of a Cell returns exactly
\* the Cells the map holds at offsets within the radius, the centre excluded,
\* in ascending order of dx and then dy, never the Cell itself, and creates
\* no Cell.
FirstNeighborsCall ==
    [][op'.name = "getNeighborsInRadius"
         /\ op'.args[2] \notin DOMAIN heap[op'.args[1]].neighborsInRadius =>
            /\ \A i \in DOMAIN op'.ret :
                  /\ op'.ret[i] \in StoredCells
                  /\ op'.ret[i] # op'.args[1]
                  /\ Around(op'.args[1], op'.ret[i], op'.args[2])
            /\ \A c \in StoredCells :
                  Around(op'.args[1], c, op'.args[2]) =>
                      \E i \in DOMAIN op'.ret : op'.ret[i] = c
            /\ \A i, j \in DOMAIN op'.ret :
                  i < j => Before(Offset(op'.args[1], op'.ret[i]),
                                  Offset(op'.args[1], op'.ret[j]))
            /\ cells' = cells
            /\ Len(heap') = Len(heap)]_vars

\* A call returned two neighbours whose order dx decides against dy.
NeighborsOrderedByColumn ==
    /\ op.name = "getNeighborsInRadius"
    /\ \E i, j \in DOMAIN op.ret :
          /\ i < j
          /\ heap[op.ret[i]].x < heap[op.ret[j]].x
          /\ heap[op.ret[i]].y > heap[op.ret[j]].y

\* C21: a getNeighborsInRadius(radius) call returns every Cell the map holds
\* within the radius, the Cells materialized after the Cell's first call for
\* that radius included.
NeighborCacheFresh ==
    op.name = "getNeighborsInRadius" =>
        \A c \in StoredCells :
            Around(op.args[1], c, op.args[2]) =>
                \E i \in DOMAIN op.ret : op.ret[i] = c

\* Entry for entry, cache `before` is kept in cache `after`.
Kept(before, after) ==
    \A k \in DOMAIN before : k \in DOMAIN after /\ after[k] = before[k]

\* C25: no step removes or overwrites an entry of a generator's gradient
\* cache or sample cache, so a repeated call returns what the first returned.
CachesOnlyGrow ==
    [][\A g \in DOMAIN noise :
          /\ Kept(noise[g].gradients, noise'[g].gradients)
          /\ Kept(noise[g].memory, noise'[g].memory)]_vars

\* Grid.clear() ran and the caches of the height generator are still filled.
CachesSurviveClear ==
    /\ op.name = "clear"
    /\ Cardinality(DOMAIN noise.height.gradients) >= 4
    /\ Cardinality(DOMAIN noise.height.memory) >= 1

\* C26: the currentCell of every entity is the Cell instance the map stores
\* under that Cell's coordinates; a tree spawned while its Cell is under
\* construction is in the set of the Cell getCell stores and returns.
CurrentCellIsStored ==
    \A e \in DOMAIN ents :
        ents[e].currentCell # Null =>
            LET c == ents[e].currentCell
                key == getCellKey(heap[c].x, heap[c].y)
            IN  /\ key \in DOMAIN cells
                /\ cells[key] = c
                /\ e \in heap[cells[key]].entities

\* C28: an entity whose currentCell is not null is a member of that Cell's
\* entity set, and the map holds that Cell, also after Grid.clear().
NoStaleCellReference ==
    \A e \in DOMAIN ents :
        ents[e].currentCell # Null =>
            /\ e \in heap[ents[e].currentCell].entities
            /\ ents[e].currentCell \in StoredCells

\* The neighbour Cells of Cell instance `this` that the Grid stores within
\* the radius of the flow calculation.
ExistingNeighbors(this) == { c \in StoredCells : Around(this, c, FlowRadius) }

\* The contribution of neighbour c to the flow of `this`: the unit direction
\* to the neighbour times the height this Cell has above it.
FlowContribution(this, c) ==
    LET Scaled(direction, heightDifference) ==
            <<Mul(direction[1], heightDifference),
              Mul(direction[2], heightDifference)>>
    IN  Scaled(Normalize(Offset(this, c)[1] * Unit, Offset(this, c)[2] * Unit),
               heap[this].height - heap[c].height)

RECURSIVE FlowTotal(_, _)
FlowTotal(this, neighbors) ==
    IF neighbors = {} THEN <<0, 0>>
    ELSE LET c == CHOOSE n \in neighbors : TRUE
             Added(one, rest) == <<one[1] + rest[1], one[2] + rest[2]>>
         IN  Added(FlowContribution(this, c), FlowTotal(this, neighbors \ {c}))

NormalizedOrZero(v) == IF v = <<0, 0>> THEN <<0, 0>> ELSE Normalize(v[1], v[2])

\* The flow direction of `this` over the given set of neighbour Cells.
FlowOver(this, neighbors) == NormalizedOrZero(FlowTotal(this, neighbors))

ExpectedFlow(this) == FlowOver(this, ExistingNeighbors(this))

Flat(this) ==
    \A c \in ExistingNeighbors(this) : heap[c].height = heap[this].height

Sign(a) == IF a > 0 THEN 1 ELSE IF a < 0 THEN -1 ELSE 0

\* The flow direction of `this` over the Cells of a neighbour list.
FlowOverList(this, list) == FlowOver(this, { list[i] : i \in DOMAIN list })

\* C22: Cell.getFlowDirection is lazy and computes once.  A call on a Cell
\* whose flowDirectionCalculated is unset computes the vector from the Cell's
\* radius-3 neighbours, stores it and sets the flag; a call on a Cell whose
\* flag is set changes nothing in any Cell and returns the stored vector; and
\* no operation other than getFlowDirection and recalculateFlowDirection,
\* materializing cells included, changes a Cell's vector or flag.
FlowComputedOnce ==
    [][/\ op'.name = "getFlowDirection" =>
            /\ heap'[op'.args[1]].flowDirectionCalculated
            /\ op'.ret = heap'[op'.args[1]].flowDirection
            /\ \A c \in DOMAIN heap :
                   c # op'.args[1] =>
                       heap'[c].flowDirection = heap[c].flowDirection
            /\ heap[op'.args[1]].flowDirectionCalculated =>
                   /\ heap' = heap
                   /\ op'.ret = heap[op'.args[1]].flowDirection
            /\ ~heap[op'.args[1]].flowDirectionCalculated =>
                   op'.ret = FlowOverList(op'.args[1],
                                 heap'[op'.args[1]].neighborsInRadius[FlowRadius])
       /\ op'.name \notin {"getFlowDirection", "recalculateFlowDirection"} =>
            \A c \in DOMAIN heap :
                /\ heap'[c].flowDirection = heap[c].flowDirection
                /\ heap'[c].flowDirectionCalculated
                     = heap[c].flowDirectionCalculated]_vars

\* A later getFlowDirection call returned the vector computed earlier although
\* cells materialized since then would give another one.
CachedFlowReturned ==
    /\ op.name = "getFlowDirection"
    /\ op.ret # ExpectedFlow(op.args[1])

RecalculatedFromExisting ==
    op.name = "recalculateFlowDirection" =>
        heap[op.args[1]].flowDirection = ExpectedFlow(op.args[1])

\* The entity of the last call moves: it is active and not static.
Moving(e) == ents[e].active /\ ~ents[e].static

\* C27: after Entity.update(deltaTime) returns for an active, non-static
\* entity, the entity's currentCell is the Cell of the coordinates that
\* contain its position.
CurrentCellContainsPosition ==
    (op.name = "update" /\ op.ret # TypeError /\ Moving(op.args[1])) =>
        LET At(e, at) ==
                /\ ents[e].currentCell # Null
                /\ heap[ents[e].currentCell].x = at.cellX
                /\ heap[ents[e].currentCell].y = at.cellY
        IN  At(op.args[1], worldToCell(ents[op.args[1]].position[1],
                                       ents[op.args[1]].position[2]))

\* C29: Entity.update(deltaTime) of an active, non-static entity completes
\* without an error in every reachable state.
UpdateCompletes ==
    (op.name = "update" /\ Moving(op.args[1])) => op.ret # TypeError

\* The number of times the last tick called the update of entity e.
UpdatesOf(e) ==
    Cardinality({ i \in DOMAIN op.log :
                    op.log[i].call = "update" /\ op.log[i].entity = e })

\* C30: whatever calls of Game.start() and Game.stop() were made, at most one
\* gameLoop callback is registered on the ticker, so that a tick calls the
\* update of each active entity at most once while the game is running and
\* not at all while it is stopped.
OneLoopPerTick ==
    /\ Cardinality(game.listeners) <= 1
    /\ op.name = "tick" =>
           \A e \in DOMAIN ents :
               UpdatesOf(e) <= (IF game.running THEN 1 ELSE 0)

=============================================================================
